---- MODULE Spec2Model ----
(***************************************************************************)
(* Model of the message logger's core: the allow/deny list maintenance     *)
(* (addToX, removeFromX, addToXAndRemoveFromOpposite), the retention       *)
(* decision shouldIgnore and the reconciler reAddDeletedMessages.          *)
(*                                                                         *)
(* A JavaScript string is a sequence of one-character strings, so that     *)
(* split, join, includes, trim and toLowerCase are computed and not        *)
(* assumed.  An optional value (guildId?, content?) is <<>> when absent    *)
(* and <<v>> when present.  Array indices are JavaScript's: 0-based, -1    *)
(* for "not found".                                                        *)
(***************************************************************************)
EXTENDS Integers, Sequences, FiniteSets, TLC

VARIABLES
    store,           \* settings.store: the two id lists, the word list, the toggles
    op,              \* the list-maintenance call that ran last
    pc,              \* "idle" before a call; "decided" after shouldIgnore, "reconciled" after reAddDeletedMessages
    ignoreCall,      \* the shouldIgnore call: its arguments, the stores' answers, its result
    messages,        \* the live message array reAddDeletedMessages mutates in place
    loggedMessages,  \* the message cache, keyed by message id
    reAddCall        \* the reAddDeletedMessages call: its arguments and the array before it

vars == <<store, op, pc, ignoreCall, messages, loggedMessages, reAddCall>>

(***************************************************************************)
(* Strings                                                                 *)
(***************************************************************************)
Comma == ","

None == <<>>
Some(v) == <<v>>

Min(a, b) == IF a < b THEN a ELSE b

\* String.prototype.indexOf(c) for a one-character c: 0-based, -1 when absent.
RECURSIVE CharIndexFrom(_, _, _)
CharIndexFrom(s, c, i) ==
    IF i >= Len(s) THEN -1
    ELSE IF s[i + 1] = c THEN i
    ELSE CharIndexFrom(s, c, i + 1)

\* String.prototype.split(","): "" splits to [""], "a," to ["a", ""].
RECURSIVE Split(_)
Split(s) ==
    LET k == CharIndexFrom(s, Comma, 0)
    IN  IF k = -1 THEN <<s>>
        ELSE <<SubSeq(s, 1, k)>> \o Split(SubSeq(s, k + 2, Len(s)))

\* Array.prototype.join(","): [] joins to "".
RECURSIVE Join(_)
Join(items) ==
    IF Len(items) = 0 THEN <<>>
    ELSE IF Len(items) = 1 THEN items[1]
    ELSE items[1] \o <<Comma>> \o Join(Tail(items))

\* String.prototype.includes(sub): sub occurs in s as a substring.
StrIncludes(s, sub) ==
    \E i \in 0..(Len(s) - Len(sub)) : SubSeq(s, i + 1, i + Len(sub)) = sub

\* Array.prototype.includes(e).
ArrIncludes(arr, e) == \E i \in 1..Len(arr) : arr[i] = e

\* Array.prototype.indexOf(e): 0-based, -1 when absent.
RECURSIVE ArrIndexFrom(_, _, _)
ArrIndexFrom(arr, e, i) ==
    IF i >= Len(arr) THEN -1
    ELSE IF arr[i + 1] = e THEN i
    ELSE ArrIndexFrom(arr, e, i + 1)

ArrIndexOf(arr, e) == ArrIndexFrom(arr, e, 0)

\* Array.prototype.splice(i, 1): the array without its element at 0-based i.
RemoveAt(arr, i) == SubSeq(arr, 1, i) \o SubSeq(arr, i + 2, Len(arr))

\* Array.prototype.splice(i, 0, x): x inserted at 0-based i, clamped to the length.
InsertAt(arr, i, x) ==
    LET k == Min(i, Len(arr))
    IN  SubSeq(arr, 1, k) \o <<x>> \o SubSeq(arr, k + 1, Len(arr))

(***************************************************************************)
(* List maintenance                                                        *)
(***************************************************************************)
ListType == {"blacklistedIds", "whitelistedIds"}

\* The ids of the model: the current user "1", another user "12", a channel "3" and
\* a guild "4".  "1" is a substring of "12".
Id1 == <<"1">>
Id12 == <<"1", "2">>
Id3 == <<"3">>
Id4 == <<"4">>

ListIds == {Id1, Id12, Id3, Id4}

\* No list grows beyond MaxItems entries.
MaxItems == 3

\* const items = settings.store[list] ? settings.store[list].split(",") : [];
ItemsOf(s, list) == IF s[list] # <<>> THEN Split(s[list]) ELSE <<>>

\* addToX: push the id, no check for an entry that is already there.
addToX(s, list, id) ==
    [s EXCEPT ![list] = Join(Append(ItemsOf(s, list), id))]

\* removeFromX: splice out the first occurrence only.
removeFromX(s, list, id) ==
    LET items == ItemsOf(s, list)
        index == ArrIndexOf(items, id)
    IN  [s EXCEPT ![list] = Join(IF index # -1 THEN RemoveAt(items, index) ELSE items)]

OppositeOf(list) ==
    IF list = "blacklistedIds" THEN "whitelistedIds" ELSE "blacklistedIds"

addToXAndRemoveFromOpposite(s, list, id) ==
    addToX(removeFromX(s, OppositeOf(list), id), list, id)

\* The boolean settings shouldIgnore reads from settings.store.
SettingNames ==
    {"alwaysLogDirectMessages", "alwaysLogCurrentChannel", "ignoreBots", "ignoreSelf",
     "ignoreMutedGuilds", "ignoreMutedCategories", "ignoreMutedChannels",
     "cacheMessagesFromServers"}

\* settings.store with the given lists and exactly the settings of `on` set.
StoreOf(wl, bl, words, on) ==
    [whitelistedIds |-> wl, blacklistedIds |-> bl, blacklistedWords |-> words]
        @@ [k \in SettingNames |-> k \in on]

EmptyStore == StoreOf(<<>>, <<>>, <<>>, {})

NoOp == [name |-> "none", list |-> "whitelistedIds", id |-> <<>>]

NoIgnoreCall == [result |-> FALSE]

NoReAddCall == [channelStart |-> FALSE]

InitLists ==
    /\ store = EmptyStore
    /\ op = NoOp
    /\ pc = "idle"
    /\ ignoreCall = NoIgnoreCall
    /\ messages = <<>>
    /\ loggedMessages = <<>>
    /\ reAddCall = NoReAddCall

AddToX ==
    \E list \in ListType, id \in ListIds :
        /\ Len(ItemsOf(store, list)) < MaxItems
        /\ store' = addToX(store, list, id)
        /\ op' = [name |-> "addToX", list |-> list, id |-> id]
        /\ UNCHANGED <<pc, ignoreCall, messages, loggedMessages, reAddCall>>

RemoveFromX ==
    \E list \in ListType, id \in ListIds :
        /\ store' = removeFromX(store, list, id)
        /\ op' = [name |-> "removeFromX", list |-> list, id |-> id]
        /\ UNCHANGED <<pc, ignoreCall, messages, loggedMessages, reAddCall>>

AddToXAndRemoveFromOpposite ==
    \E list \in ListType, id \in ListIds :
        /\ Len(ItemsOf(store, list)) < MaxItems
        /\ store' = addToXAndRemoveFromOpposite(store, list, id)
        /\ op' = [name |-> "addToXAndRemoveFromOpposite", list |-> list, id |-> id]
        /\ UNCHANGED <<pc, ignoreCall, messages, loggedMessages, reAddCall>>

NextLists == AddToX \/ RemoveFromX \/ AddToXAndRemoveFromOpposite

SpecLists == InitLists /\ [][NextLists]_vars

\* id is a whole comma-separated entry of the list string.
IsEntry(listString, id) == ArrIncludes(Split(listString), id)

\* C1: immediately after addToXAndRemoveFromOpposite(L, id), id is an entry of L and
\* is not an entry of the opposite list.
C1_CombinedCallLeavesIdOnlyInNamedList ==
    op.name = "addToXAndRemoveFromOpposite" =>
        /\ IsEntry(store[op.list], op.id)
        /\ ~IsEntry(store[OppositeOf(op.list)], op.id)

(***************************************************************************)
(* shouldIgnore                                                            *)
(***************************************************************************)
EPHEMERAL == 64

\* UserStore.getCurrentUser().id
myId == Id1

\* (x & bit) === bit, for bit a power of two.
HasBit(x, bit) == (x \div bit) % 2 = 1

\* String.prototype.toLowerCase, on the letters the model uses.
LowerChar(c) == CASE c = "A" -> "a" [] c = "B" -> "b" [] OTHER -> c

ToLowerCase(s) == [i \in 1..Len(s) |-> LowerChar(s[i])]

\* String.prototype.trim: leading and trailing blanks removed.
RECURSIVE TrimStart(_)
TrimStart(s) == IF Len(s) > 0 /\ s[1] = " " THEN TrimStart(Tail(s)) ELSE s

RECURSIVE TrimEnd(_)
TrimEnd(s) ==
    IF Len(s) > 0 /\ s[Len(s)] = " " THEN TrimEnd(SubSeq(s, 1, Len(s) - 1)) ELSE s

Trim(s) == TrimEnd(TrimStart(s))

\* blacklistedWords.split(',').map(w => w.trim().toLowerCase()).filter(w => w.length > 0)
BlackListedWords(s) ==
    LET raw == Split(s.blacklistedWords)
    IN  SelectSeq([i \in 1..Len(raw) |-> ToLowerCase(Trim(raw[i]))], LAMBDA w : Len(w) > 0)

\* ids.includes(e) for ids = [authorId, channelId, guildId]; an absent guildId is
\* undefined and equals no string.
IdsInclude(m, e) ==
    \/ e = m.authorId
    \/ e = m.channelId
    \/ (m.guildId # None /\ e = m.guildId[1])

\* list.split(",").some(e => ids.includes(e))
SomeEntryIn(listString, m) ==
    LET entries == Split(listString)
    IN  \E i \in 1..Len(entries) : IdsInclude(m, entries[i])

isWhitelisted(m, s) == SomeEntryIn(s.whitelistedIds, m)
isBlacklisted(m, s) == SomeEntryIn(s.blacklistedIds, m)

\* whitelistedIds.includes(authorId!) and its siblings are String.prototype.includes
\* on the comma-joined string; includes(undefined) looks for "undefined", which no
\* list of ids holds.
isAuthorWhitelisted(m, s) == StrIncludes(s.whitelistedIds, m.authorId)
isChannelWhitelisted(m, s) == StrIncludes(s.whitelistedIds, m.channelId)
isGuildWhitelisted(m, s) == m.guildId # None /\ StrIncludes(s.whitelistedIds, m.guildId[1])
isAuthorBlacklisted(m, s) == StrIncludes(s.blacklistedIds, m.authorId)
isChannelBlacklisted(m, s) == StrIncludes(s.blacklistedIds, m.channelId)

\* Rule 1: the ephemeral bit of flags.
isEphemeral(m) == HasBit(m.flags, EPHEMERAL)

\* Rule 2: content is present and non-empty, and holds a blacklisted word.
HasBlacklistedWord(m, s) ==
    /\ m.content # None
    /\ m.content[1] # <<>>
    /\ LET words == BlackListedWords(s)
           text == ToLowerCase(Trim(m.content[1]))
       IN  \E i \in 1..Len(words) : StrIncludes(text, words[i])

\* Mutant of SentBySelf: a whitelisted author is spared, as in the bot rule.
SentBySelf_UnlessWhitelisted(m, s) ==
    s.ignoreSelf /\ m.authorId = myId /\ ~isAuthorWhitelisted(m, s)

\* Rule 3
SentBySelf(m, s) == s.ignoreSelf /\ m.authorId = myId

\* Rule 4: ChannelStore.getChannel(channelId)?.isDM?.() is the environment's answer.
KeptDirectMessage(m, s, e) == s.alwaysLogDirectMessages /\ e.isDM

\* Rule 5
BotIgnored(m, s) == s.ignoreBots /\ m.bot /\ ~isAuthorWhitelisted(m, s)

\* Mutant of KeptByWhitelist: the entry-by-entry test (the only one that looks at the
\* guild) is left out.
KeptByWhitelist_AuthorOrChannelOnly(m, s) ==
    \/ isAuthorWhitelisted(m, s)
    \/ isChannelWhitelisted(m, s)
    \/ s.alwaysLogCurrentChannel

\* Rule 7
KeptByWhitelist(m, s) ==
    \/ isAuthorWhitelisted(m, s)
    \/ isChannelWhitelisted(m, s)
    \/ isWhitelisted(m, s)
    \/ s.alwaysLogCurrentChannel

\* Rule 8
IgnoredByBlacklist(m, s) ==
    \/ isAuthorBlacklisted(m, s)
    \/ isChannelBlacklisted(m, s)
    \/ isBlacklisted(m, s)

\* Rule 9
IgnoredAsCached(m, s) ==
    /\ m.isCachedByUs
    /\ ~s.cacheMessagesFromServers
    /\ m.guildId # None
    /\ ~isGuildWhitelisted(m, s)

\* Rules 10 to 12: UserGuildSettingsStore's answers are the environment's; channelId
\* is a required argument, so channelId != null holds.
MutedGuildIgnored(m, s, e) == m.guildId # None /\ s.ignoreMutedGuilds /\ e.guildMuted
MutedCategoryIgnored(m, s, e) == s.ignoreMutedCategories /\ e.categoryMuted
MutedChannelIgnored(m, s, e) == s.ignoreMutedChannels /\ e.channelMuted

\* Mutant of shouldIgnore: the bot rule is consulted before the direct-message rule.
shouldIgnore_BotBeforeDirectMessage(m, s, e) ==
    IF isEphemeral(m) THEN TRUE
    ELSE IF HasBlacklistedWord(m, s) THEN TRUE
    ELSE IF SentBySelf(m, s) THEN TRUE
    ELSE IF BotIgnored(m, s) THEN TRUE
    ELSE IF KeptDirectMessage(m, s, e) THEN FALSE
    ELSE IF m.ghostPinged THEN FALSE
    ELSE IF KeptByWhitelist(m, s) THEN FALSE
    ELSE IF IgnoredByBlacklist(m, s) THEN TRUE
    ELSE IF IgnoredAsCached(m, s) THEN TRUE
    ELSE IF MutedGuildIgnored(m, s, e) THEN TRUE
    ELSE IF MutedCategoryIgnored(m, s, e) THEN TRUE
    ELSE IF MutedChannelIgnored(m, s, e) THEN TRUE
    ELSE FALSE

\* Mutant of shouldIgnore: the muted-channel rule is consulted before the whitelist.
shouldIgnore_MutedChannelBeforeWhitelist(m, s, e) ==
    IF isEphemeral(m) THEN TRUE
    ELSE IF HasBlacklistedWord(m, s) THEN TRUE
    ELSE IF SentBySelf(m, s) THEN TRUE
    ELSE IF KeptDirectMessage(m, s, e) THEN FALSE
    ELSE IF BotIgnored(m, s) THEN TRUE
    ELSE IF m.ghostPinged THEN FALSE
    ELSE IF MutedChannelIgnored(m, s, e) THEN TRUE
    ELSE IF KeptByWhitelist(m, s) THEN FALSE
    ELSE IF IgnoredByBlacklist(m, s) THEN TRUE
    ELSE IF IgnoredAsCached(m, s) THEN TRUE
    ELSE IF MutedGuildIgnored(m, s, e) THEN TRUE
    ELSE IF MutedCategoryIgnored(m, s, e) THEN TRUE
    ELSE FALSE

\* shouldIgnore: TRUE to ignore the message, FALSE to keep it.  The first return
\* reached decides.
shouldIgnore(m, s, e) ==
    IF isEphemeral(m) THEN TRUE
    ELSE IF HasBlacklistedWord(m, s) THEN TRUE
    ELSE IF SentBySelf(m, s) THEN TRUE
    ELSE IF KeptDirectMessage(m, s, e) THEN FALSE
    ELSE IF BotIgnored(m, s) THEN TRUE
    ELSE IF m.ghostPinged THEN FALSE
    ELSE IF KeptByWhitelist(m, s) THEN FALSE
    ELSE IF IgnoredByBlacklist(m, s) THEN TRUE
    ELSE IF IgnoredAsCached(m, s) THEN TRUE
    ELSE IF MutedGuildIgnored(m, s, e) THEN TRUE
    ELSE IF MutedCategoryIgnored(m, s, e) THEN TRUE
    ELSE IF MutedChannelIgnored(m, s, e) THEN TRUE
    ELSE FALSE

(***************************************************************************)
(* The inputs of shouldIgnore                                              *)
(***************************************************************************)
\* The id lists a call may find in the settings: empty, one entry, two entries.
IdListChoices ==
    {Join(q) : q \in {<<>>, <<Id12>>, <<Id3>>, <<Id4>>, <<Id3, Id1>>}}

\* blacklistedWords: none, or " B," (one word "b" once trimmed and lower-cased,
\* and an empty entry the filter drops).
WordListChoices == {<<>>, <<" ", "B", " ", ",">>}

\* content: absent, without the word, with the word in another case.
ContentChoices == {None, Some(<<"a">>), Some(<<"A", "b", " ">>)}

\* flags: no bit, another bit alone (4), the ephemeral bit beside another (64 + 4).
FlagChoices == {0, 4, 68}

\* The author is the current user or another user; the channel is the one channel,
\* in the guild or in no guild.
AuthorChoices == {Id1, Id12}
ChannelChoices == {Id3}
GuildChoices == {None, Some(Id4)}

\* The boolean arguments of a call and the boolean answers of the stores.
ArgNames == {"bot", "ghostPinged", "isCachedByUs"}
EnvNames == {"isDM", "guildMuted", "categoryMuted", "channelMuted"}

\* One scenario sets at most MaxOn of the fifteen booleans a decision reads (eight
\* settings, three arguments, four answers of the stores).
MaxOn == 4

SetsUpTo(S, n) == {x \in SUBSET S : Cardinality(x) <= n}

SettingsOn(s) == {k \in SettingNames : s[k]}

InitIgnore ==
    /\ \E wl \in IdListChoices, bl \in IdListChoices, words \in WordListChoices,
          on \in SetsUpTo(SettingNames, MaxOn) :
            store = StoreOf(wl, bl, words, on)
    /\ op = NoOp
    /\ pc = "idle"
    /\ ignoreCall = NoIgnoreCall
    /\ messages = <<>>
    /\ loggedMessages = <<>>
    /\ reAddCall = NoReAddCall

ShouldIgnore ==
    /\ pc = "idle"
    /\ \E authorId \in AuthorChoices, channelId \in ChannelChoices,
          guildId \in GuildChoices, flags \in FlagChoices, content \in ContentChoices,
          on \in SetsUpTo(ArgNames \cup EnvNames, MaxOn - Cardinality(SettingsOn(store))) :
            LET m == [channelId |-> channelId, authorId |-> authorId,
                      guildId |-> guildId, flags |-> flags, content |-> content]
                        @@ [k \in ArgNames |-> k \in on]
                e == [k \in EnvNames |-> k \in on]
            IN  ignoreCall' = [args |-> m, env |-> e, result |-> shouldIgnore(m, store, e)]
    /\ pc' = "decided"
    /\ UNCHANGED <<store, op, messages, loggedMessages, reAddCall>>

NextIgnore == ShouldIgnore

SpecIgnore == InitIgnore /\ [][NextIgnore]_vars

(***************************************************************************)
(* Claims about shouldIgnore                                               *)
(***************************************************************************)
Decided == pc = "decided"

\* The author, the channel, the guild of the call is a whole entry of the list.
AuthorIsEntry(list) == IsEntry(store[list], ignoreCall.args.authorId)
ChannelIsEntry(list) == IsEntry(store[list], ignoreCall.args.channelId)
GuildIsEntry(list) ==
    ignoreCall.args.guildId # None /\ IsEntry(store[list], ignoreCall.args.guildId[1])

AnyIsEntry(list) == AuthorIsEntry(list) \/ ChannelIsEntry(list) \/ GuildIsEntry(list)

\* One of rules 1 to 3 applies to the call: ephemeral, blacklisted word, self.
RuleOneToThreeApplies ==
    \/ isEphemeral(ignoreCall.args)
    \/ HasBlacklistedWord(ignoreCall.args, store)
    \/ SentBySelf(ignoreCall.args, store)

\* One of rules 1 to 6 applies to the call.
RuleOneToSixApplies ==
    \/ RuleOneToThreeApplies
    \/ KeptDirectMessage(ignoreCall.args, store, ignoreCall.env)
    \/ BotIgnored(ignoreCall.args, store)
    \/ ignoreCall.args.ghostPinged

WhitelistedAuthorInMutedChannel ==
    /\ Decided
    /\ AuthorIsEntry("whitelistedIds")
    /\ ~ChannelIsEntry("whitelistedIds")
    /\ ignoreCall.env.channelMuted
    /\ store.ignoreMutedChannels

\* C4 as stated: a whitelisted author's message in a muted, non-whitelisted channel
\* with ignoreMutedChannels set is ignored.
C4_WhitelistedAuthorIgnoredInMutedChannel ==
    WhitelistedAuthorInMutedChannel => ignoreCall.result = TRUE

\* C4 as amended: such a message is ignored exactly when one of rules 1 to 3 applies
\* (ephemeral, blacklisted word, self); otherwise it is kept, the whitelist being
\* consulted before the mute rules.
C4_WhitelistedAuthorKeptInMutedChannel ==
    WhitelistedAuthorInMutedChannel => (ignoreCall.result = RuleOneToThreeApplies)

\* C4's case: the scenario, with none of rules 1 to 3 applying; the message is kept.
C4_Witness ==
    /\ WhitelistedAuthorInMutedChannel
    /\ ~RuleOneToThreeApplies
    /\ ignoreCall.result = FALSE

\* C5: with ignoreSelf set, a message of the current user is ignored, whatever the
\* whitelist, the channel, ghostPinged and alwaysLogCurrentChannel are.
C5_SelfPrecedesWhitelist ==
    (/\ Decided
     /\ store.ignoreSelf
     /\ ignoreCall.args.authorId = myId)
        => ignoreCall.result = TRUE

\* C5's case: the current user is whitelisted and ghost-pinged in a direct-message
\* channel with alwaysLogDirectMessages set, without the ephemeral flag or a
\* blacklisted word; the message is ignored.
C5_Witness ==
    /\ Decided
    /\ store.ignoreSelf
    /\ ignoreCall.args.authorId = myId
    /\ AuthorIsEntry("whitelistedIds")
    /\ store.alwaysLogDirectMessages /\ ignoreCall.env.isDM
    /\ ignoreCall.args.ghostPinged
    /\ ~isEphemeral(ignoreCall.args)
    /\ ~HasBlacklistedWord(ignoreCall.args, store)
    /\ ignoreCall.result = TRUE

\* C6: in a direct-message channel with alwaysLogDirectMessages set, a message is
\* ignored when one of rules 1 to 3 applies and kept otherwise, whatever the bot
\* rule, the blacklist, isCachedByUs and the mute state are.
C6_DirectMessageOverride ==
    (/\ Decided
     /\ store.alwaysLogDirectMessages
     /\ ignoreCall.env.isDM)
        => (ignoreCall.result = RuleOneToThreeApplies)

\* C6's case: a bot's direct message with ignoreBots set and an entry of the
\* blacklist, none of rules 1 to 3 applying; the message is kept.
C6_Witness ==
    /\ Decided
    /\ store.alwaysLogDirectMessages /\ ignoreCall.env.isDM
    /\ store.ignoreBots /\ ignoreCall.args.bot
    /\ ~AuthorIsEntry("whitelistedIds")
    /\ AnyIsEntry("blacklistedIds")
    /\ ~RuleOneToThreeApplies
    /\ ignoreCall.result = FALSE

\* C7: a message to which none of rules 1 to 6 applies, with alwaysLogCurrentChannel
\* unset, none of whose author, channel, guild is an entry of the whitelist and one
\* of which is an entry of the blacklist, is ignored.
C7_BlacklistedEntryIgnored ==
    (/\ Decided
     /\ ~RuleOneToSixApplies
     /\ ~store.alwaysLogCurrentChannel
     /\ ~AnyIsEntry("whitelistedIds")
     /\ AnyIsEntry("blacklistedIds"))
        => ignoreCall.result = TRUE

\* A higher-priority element (user over channel over guild) is an entry of the
\* blacklist, and only lower-priority elements are whitelisted.
HigherBlacklistedLowerWhitelisted ==
    \/ /\ AuthorIsEntry("blacklistedIds")
       /\ ~isAuthorWhitelisted(ignoreCall.args, store)
       /\ (ChannelIsEntry("whitelistedIds") \/ GuildIsEntry("whitelistedIds"))
    \/ /\ ChannelIsEntry("blacklistedIds")
       /\ ~isAuthorWhitelisted(ignoreCall.args, store)
       /\ ~isChannelWhitelisted(ignoreCall.args, store)
       /\ GuildIsEntry("whitelistedIds")

\* C8: a message to which none of rules 1 to 6 applies, with alwaysLogCurrentChannel
\* unset, is ignored when a higher-priority element is blacklisted and only a
\* lower-priority element is whitelisted.
C8_HigherPriorityBlacklistWins ==
    (/\ Decided
     /\ ~RuleOneToSixApplies
     /\ ~store.alwaysLogCurrentChannel
     /\ HigherBlacklistedLowerWhitelisted)
        => ignoreCall.result = TRUE


(***************************************************************************)
(* reAddDeletedMessages                                                    *)
(***************************************************************************)
DigitValue(c) ==
    CASE c = "0" -> 0 [] c = "1" -> 1 [] c = "2" -> 2 [] c = "3" -> 3 [] c = "4" -> 4
      [] c = "5" -> 5 [] c = "6" -> 6 [] c = "7" -> 7 [] c = "8" -> 8 [] c = "9" -> 9

\* parseInt(id) of a decimal numeral.
RECURSIVE ParseInt(_)
ParseInt(s) ==
    IF Len(s) = 0 THEN 0
    ELSE 10 * ParseInt(SubSeq(s, 1, Len(s) - 1)) + DigitValue(s[Len(s)])

\* { id, time: parseInt(id) / 4194304 + DISCORD_EPOCH }.  The time is kept as the
\* numerator of (time - DISCORD_EPOCH) over 4194304, which is parseInt(id): the code
\* only compares times and takes the sign of their differences, and both are those
\* of the numerators.
TimedId(id) == [id |-> id, time |-> ParseInt(id)]

\* The loop of lines 52-57: the deleted ids that have a record, in the given order.
RECURSIVE SavedOf(_, _)
SavedOf(deleted, logged) ==
    IF Len(deleted) = 0 THEN <<>>
    ELSE IF logged[Head(deleted)] = None THEN SavedOf(Tail(deleted), logged)
    ELSE <<TimedId(Head(deleted))>> \o SavedOf(Tail(deleted), logged)

\* x placed after every element of the ascending array whose time is <= its own.
RECURSIVE InsertAsc(_, _)
InsertAsc(sorted, x) ==
    IF Len(sorted) = 0 THEN <<x>>
    ELSE IF sorted[Len(sorted)].time <= x.time THEN Append(sorted, x)
    ELSE Append(InsertAsc(SubSeq(sorted, 1, Len(sorted) - 1), x), sorted[Len(sorted)])

\* arr.sort((a, b) => a.time - b.time), a stable sort.
RECURSIVE SortAsc(_)
SortAsc(arr) ==
    IF Len(arr) = 0 THEN <<>>
    ELSE InsertAsc(SortAsc(SubSeq(arr, 1, Len(arr) - 1)), arr[Len(arr)])

RECURSIVE InsertDesc(_, _)
InsertDesc(sorted, x) ==
    IF Len(sorted) = 0 THEN <<x>>
    ELSE IF sorted[Len(sorted)].time >= x.time THEN Append(sorted, x)
    ELSE Append(InsertDesc(SubSeq(sorted, 1, Len(sorted) - 1), x), sorted[Len(sorted)])

\* arr.sort((a, b) => b.time - a.time), a stable sort.
RECURSIVE SortDesc(_)
SortDesc(arr) ==
    IF Len(arr) = 0 THEN <<>>
    ELSE InsertDesc(SortDesc(SubSeq(arr, 1, Len(arr) - 1)), arr[Len(arr)])

\* savedIDs.findIndex((e) => e.time > lowestTime)
RECURSIVE FindFirstAbove(_, _, _)
FindFirstAbove(arr, t, i) ==
    IF i >= Len(arr) THEN -1
    ELSE IF arr[i + 1].time > t THEN i
    ELSE FindFirstAbove(arr, t, i + 1)

\* findLastIndex(savedIDs, (e) => e.time < highestTime)
RECURSIVE FindLastBelow(_, _, _)
FindLastBelow(arr, t, i) ==
    IF i < 0 THEN -1
    ELSE IF arr[i + 1].time < t THEN i
    ELSE FindLastBelow(arr, t, i - 1)

\* Mutant of LowestIDX: a search that finds nothing falls back to the start of
\* savedIDs instead of reporting -1.
LowestIDX_FallsBackToStart(savedIDs, lowestTime, channelEnd) ==
    IF channelEnd \/ FindFirstAbove(savedIDs, lowestTime, 0) = -1 THEN 0
    ELSE FindFirstAbove(savedIDs, lowestTime, 0)

LowestIDX(savedIDs, lowestTime, channelEnd) ==
    IF channelEnd THEN 0 ELSE FindFirstAbove(savedIDs, lowestTime, 0)

HighestIDX(savedIDs, highestTime, channelStart) ==
    IF channelStart THEN Len(savedIDs) - 1
    ELSE FindLastBelow(savedIDs, highestTime, Len(savedIDs) - 1)

\* Array.prototype.slice(from, to) for 0 <= from.
Slice(arr, from, to) == SubSeq(arr, from + 1, Min(to, Len(arr)))

\* messages.findIndex((e) => e.id === id) !== -1
IsShown(msgs, id) == \E k \in 1..Len(msgs) : msgs[k].id = id

\* Mutant of SpliceFrom: the ids shown are looked up in the array as it was before
\* the loop, not in the array the loop is growing.
RECURSIVE SpliceStale(_, _, _, _, _)
SpliceStale(shown, msgs, reAddIDs, i, logged) ==
    IF i >= Len(reAddIDs) THEN msgs
    ELSE LET id == reAddIDs[i + 1].id
         IN  IF IsShown(shown, id) THEN SpliceStale(shown, msgs, reAddIDs, i + 1, logged)
             ELSE IF logged[id][1].message = None
                  THEN SpliceStale(shown, msgs, reAddIDs, i + 1, logged)
             ELSE SpliceStale(shown, InsertAt(msgs, i, logged[id][1].message[1]),
                              reAddIDs, i + 1, logged)

SpliceFrom_StaleCheck(msgs, reAddIDs, i, logged) ==
    SpliceStale(msgs, msgs, reAddIDs, i, logged)

\* The loop of lines 73-79, from index i on.  An id that is not shown is one of
\* savedIDs, so its record exists; a record without a message is skipped.
RECURSIVE SpliceFrom(_, _, _, _)
SpliceFrom(msgs, reAddIDs, i, logged) ==
    IF i >= Len(reAddIDs) THEN msgs
    ELSE LET id == reAddIDs[i + 1].id
         IN  IF IsShown(msgs, id) THEN SpliceFrom(msgs, reAddIDs, i + 1, logged)
             ELSE IF logged[id][1].message = None
                  THEN SpliceFrom(msgs, reAddIDs, i + 1, logged)
             ELSE SpliceFrom(InsertAt(msgs, i, logged[id][1].message[1]),
                             reAddIDs, i + 1, logged)

\* reAddDeletedMessages: the array `msgs` as the call leaves it.
reAddDeletedMessages(msgs, deleted, channelStart, channelEnd, logged) ==
    IF Len(msgs) = 0 \/ Len(deleted) = 0 THEN msgs
    ELSE
    LET IDs == [i \in 1..Len(msgs) |-> TimedId(msgs[i].id)]
        savedIDs == SortAsc(SavedOf(deleted, logged))
    IN  IF Len(savedIDs) = 0 THEN msgs
        ELSE
        LET lowestTime == IDs[Len(IDs)].time
            highestTime == IDs[1].time
            lowestIDX == LowestIDX(savedIDs, lowestTime, channelEnd)
            highestIDX == HighestIDX(savedIDs, highestTime, channelStart)
        IN  IF lowestIDX = -1 THEN msgs
            ELSE IF highestIDX = -1 THEN msgs
            ELSE SpliceFrom(msgs,
                            SortDesc(Slice(savedIDs, lowestIDX, highestIDX + 1) \o IDs),
                            0, logged)

(***************************************************************************)
(* The inputs of reAddDeletedMessages                                      *)
(***************************************************************************)
Msg200 == <<"2", "0", "0">>
Msg250 == <<"2", "5", "0">>
Msg300 == <<"3", "0", "0">>

MsgIds == {Msg200, Msg250, Msg300}

\* deletedMessages names at most MaxDeleted ids, repeats allowed.
MaxDeleted == 3

SeqsUpTo(S, n) == UNION {[1..k -> S] : k \in 0..n}

\* The page the host loaded: distinct messages, newest first.
LiveChoices ==
    {[i \in 1..Len(q) |-> [id |-> q[i]]] :
        q \in {p \in SeqsUpTo(MsgIds, Cardinality(MsgIds)) :
                  \A i \in 1..(Len(p) - 1) : ParseInt(p[i]) > ParseInt(p[i + 1])}}

\* loggedMessages[id]: no record, a record without a message, or a record with a
\* message (which carries the id it is stored under, or another one).
RecordChoices ==
    {None, Some([message |-> None])}
        \cup {Some([message |-> Some([id |-> b])]) : b \in MsgIds}

InitReAdd ==
    /\ store = EmptyStore
    /\ op = NoOp
    /\ pc = "idle"
    /\ ignoreCall = NoIgnoreCall
    /\ messages \in LiveChoices
    /\ loggedMessages \in [MsgIds -> RecordChoices]
    /\ reAddCall = NoReAddCall

ReAddDeletedMessages ==
    /\ pc = "idle"
    /\ \E deleted \in SeqsUpTo(MsgIds, MaxDeleted), channelStart \in BOOLEAN,
          channelEnd \in BOOLEAN :
            /\ messages' = reAddDeletedMessages(messages, deleted, channelStart,
                                                channelEnd, loggedMessages)
            /\ reAddCall' = [before |-> messages, deletedMessages |-> deleted,
                             channelStart |-> channelStart, channelEnd |-> channelEnd]
    /\ pc' = "reconciled"
    /\ UNCHANGED <<store, op, ignoreCall, loggedMessages>>

NextReAdd == ReAddDeletedMessages

SpecReAdd == InitReAdd /\ [][NextReAdd]_vars

TimeOfMsg(msg) == TimedId(msg.id).time

NewestFirst(msgs) ==
    \A i \in 1..(Len(msgs) - 1) : TimeOfMsg(msgs[i]) >= TimeOfMsg(msgs[i + 1])

StrictlyNewestFirst(msgs) ==
    \A i \in 1..(Len(msgs) - 1) : TimeOfMsg(msgs[i]) > TimeOfMsg(msgs[i + 1])

DistinctIds(msgs) ==
    \A i \in 1..Len(msgs), j \in 1..Len(msgs) : msgs[i].id = msgs[j].id => i = j

\* Every cached message carries the id it is stored under.
BodiesCarryTheirId ==
    \A id \in MsgIds :
        (loggedMessages[id] # None /\ loggedMessages[id][1].message # None)
            => loggedMessages[id][1].message[1].id = id

\* C3: after a call on a non-empty live list that was strictly newest-first, the
\* live list is newest-first by derived time (stated for a cache whose messages carry
\* their own ids, where the derived time of an inserted message is that of its id).
C3_LiveListStaysNewestFirst ==
    (/\ pc = "reconciled"
     /\ Len(reAddCall.before) > 0
     /\ StrictlyNewestFirst(reAddCall.before)
     /\ BodiesCarryTheirId)
        => NewestFirst(messages)

HasRecord(id) == loggedMessages[id] # None

HasBody(id) == HasRecord(id) /\ loggedMessages[id][1].message # None

DeletedIds == {reAddCall.deletedMessages[k] : k \in 1..Len(reAddCall.deletedMessages)}

\* channelEnd is false and no deleted record is strictly newer than the oldest
\* (last) live message.
LowerBoundSearchFails ==
    /\ Len(reAddCall.before) > 0
    /\ ~reAddCall.channelEnd
    /\ \A id \in DeletedIds :
          HasRecord(id) =>
              ~(TimedId(id).time > TimeOfMsg(reAddCall.before[Len(reAddCall.before)]))

\* channelStart is false and no deleted record is strictly older than the newest
\* (first) live message.
UpperBoundSearchFails ==
    /\ Len(reAddCall.before) > 0
    /\ ~reAddCall.channelStart
    /\ \A id \in DeletedIds :
          HasRecord(id) => ~(TimedId(id).time < TimeOfMsg(reAddCall.before[1]))

\* C9: on its no-op paths (empty live list, empty deletedIds, a failed bound search)
\* the call leaves the live list exactly as it was.
C9_NoOpPathsLeaveLiveListUnchanged ==
    (/\ pc = "reconciled"
     /\ \/ Len(reAddCall.before) = 0
        \/ Len(reAddCall.deletedMessages) = 0
        \/ LowerBoundSearchFails
        \/ UpperBoundSearchFails)
        => messages = reAddCall.before

\* C9's case: the lower bound search fails although deletedIds names a cached
\* message that is not shown and the upper bound is open; nothing is inserted.
C9_Witness ==
    /\ pc = "reconciled"
    /\ LowerBoundSearchFails
    /\ reAddCall.channelStart
    /\ \E id \in DeletedIds : HasBody(id) /\ ~IsShown(reAddCall.before, id)
    /\ messages = reAddCall.before

\* C10: a live list of pairwise distinct ids, reconciled against a cache whose
\* messages carry the ids they are stored under, still has pairwise distinct ids.
C10_NoDuplicateInserted ==
    (/\ pc = "reconciled"
     /\ DistinctIds(reAddCall.before)
     /\ BodiesCarryTheirId)
        => DistinctIds(messages)

\* C10's case: deletedIds names a cached message that is already shown and names
\* some id twice, and the call inserted something.
C10_Witness ==
    /\ pc = "reconciled"
    /\ BodiesCarryTheirId
    /\ \E id \in DeletedIds : HasBody(id) /\ IsShown(reAddCall.before, id)
    /\ \E i, j \in 1..Len(reAddCall.deletedMessages) :
          i # j /\ reAddCall.deletedMessages[i] = reAddCall.deletedMessages[j]
    /\ Len(messages) > Len(reAddCall.before)
    /\ DistinctIds(messages)

====
